---- MODULE Spec2Model ----
\* Model of the GCE volume driver of cloudvol2 (driver/gce.go) together with
\* the two capabilities it drives: the Cloud Disk service (disks, instance
\* attachments, zone operations) and the Filesystem (directories, mount table).
\*
\* Each driver method is a function from a world (the cloud and filesystem
\* state) to the SET of results it can produce, one result for every way the
\* capability calls it makes can turn out.  An action of the specification
\* picks one result of one method and installs it: a whole call is one step.
EXTENDS Integers, Sequences, FiniteSets, TLC

VARIABLES
    disks,      \* names of the disks that exist in the project/zone
    att,        \* att[n]: DeviceName under which disk n is attached to the
                \* local instance, NoDevice when it is not attached
    mtab,       \* the mount table: entries [device, target]
    dirs,       \* mount-point directories that exist
    diskTypes,  \* gceDriver.diskTypes: the nil map or a map name -> disk type
    pend,       \* zone operations accepted but not yet completed remotely
    last,       \* the most recent call of the driver and what it returned
    prev,       \* the call before it (kept by MountSpec): operation, name,
                \* error, returned path
    detachFailed, \* (kept by MountSpec) the names for which an Unmount has
                \* failed in its detach step and left the disk attached
    wt,         \* (WaitSpec) one run of waitForOp, statement by statement
    lk,         \* (CacheSpec) lk[p]: the getDiskType call of caller p,
                \* statement by statement
    mr          \* (RaceSpec) mr[p]: the Mount call of caller p, capability
                \* call by capability call; (MountUnmountSpec) the Mount
                \* call of one caller and the Unmount call of the other

vars == <<disks, att, mtab, dirs, diskTypes, pend, last, prev, detachFailed, wt,
          lk, mr>>

----------------------------------------------------------------------------
\* Program constants

devicePathFormat == "/dev/disk/by-id/google-"
operationWaitTimeout == 5000
operationPollInterval == 100
defaultVolumeSizeGb == 10
mountPath == "/mnt"

\* Bounds of the model

\* operations that may stay in flight after their waiter gave up
MaxPending == 1
\* pages of the disk-type listing
NumPages == 2

\* the volume the calls are about; it exists at the start or Create makes it
Names == {"vol1"}
\* device name of an attachment that was not made by this driver
ForeignDevice == "sdb"
NoDevice == ""
Nil == "nil"

\* a Go map of disk types: nil, or made and holding m
NilMap == [isNil |-> TRUE, m |-> <<>>]
MakeMap(m) == [isNil |-> FALSE, m |-> m]

DevicePath(deviceName) == devicePathFormat \o deviceName

\* path.Join(d.mountPath, name) for a name without separators
PathJoin(dir, name) == dir \o "/" \o name

DiskURI(name) == "zones/z/disks/" \o name

\* the world a call runs in
World == [disks |-> disks, att |-> att, mtab |-> mtab, dirs |-> dirs,
          diskTypes |-> diskTypes, pend |-> pend]

NilVol == [Name |-> Nil, Path |-> "", Ready |-> FALSE, diskURI |-> "",
           devicePath |-> ""]

\* the result of a step: the world it leaves, the gceVolume it worked on,
\* the error it returns ("" is nil) and the capability calls it issued
NoDisk == [SizeGb |-> 0, Type |-> ""]
Res(w, vol, err, calls) ==
    [w |-> w, vol |-> vol, err |-> err, calls |-> calls, ret |-> "",
     disk |-> NoDisk, key |-> "", list |-> {}]

----------------------------------------------------------------------------
\* getAttachedDisk: the instance lookup fails, or the instance's disk list
\* has an entry whose Source is the disk, or it has none (nil, nil).  The
\* listing of the instance may lag behind the disk's users list.
getAttachedDisk(w, id) ==
    { [err |-> "getAttached", found |-> FALSE, DeviceName |-> NoDevice],
      [err |-> "", found |-> FALSE, DeviceName |-> NoDevice] }
    \cup (IF w.att[id] # NoDevice
          THEN { [err |-> "", found |-> TRUE, DeviceName |-> w.att[id]] }
          ELSE {})

\* the mount point of a device in the mount table, "" when it has none
MountPointOf(tab, devicePath) ==
    LET es == { e \in tab : e.device = devicePath }
    IN  IF es = {} THEN "" ELSE (CHOOSE e \in es : TRUE).target

\* mountpath.GetMountPath: the mount point of a device, "" when not mounted
GetMountPath(w, devicePath) ==
    { [err |-> "mountPath", path |-> ""],
      [err |-> "", path |-> MountPointOf(w.mtab, devicePath)] }

\* stringInSlice(disk.Users, d.instanceURI)
stringInSlice(w, id) == w.att[id] # NoDevice

\* getVolume without "vol.Ready = true"
getVolumeReadyUnset(w, id) ==
    LET getFails == Res(w, NilVol, "getDisk", <<"Disks.Get">>)
        vol0 == [Name |-> id, Path |-> "", Ready |-> FALSE,
                 diskURI |-> DiskURI(id), devicePath |-> ""]
    IN  IF id \notin w.disks THEN { getFails }
        ELSE { getFails } \cup
          IF stringInSlice(w, id)
          THEN UNION {
                 IF a.err # ""
                 THEN { Res(w, NilVol, a.err, <<"Disks.Get", "Instances.Get">>) }
                 ELSE IF ~a.found
                 THEN { Res(w, NilVol, "panic", <<"Disks.Get", "Instances.Get">>) }
                 ELSE LET dev == DevicePath(a.DeviceName)
                          cs == <<"Disks.Get", "Instances.Get", "GetMountPath">>
                      IN  { IF m.err # ""
                            THEN Res(w, NilVol, m.err, cs)
                            ELSE Res(w, [vol0 EXCEPT !.devicePath = dev,
                                                     !.Path = m.path], "", cs)
                            : m \in GetMountPath(w, dev) }
                 : a \in getAttachedDisk(w, id) }
          ELSE { Res(w, vol0, "", <<"Disks.Get">>) }

\* getVolume that logs a failed mount-point lookup and carries on
getVolumeSwallow(w, id) ==
    LET getFails == Res(w, NilVol, "getDisk", <<"Disks.Get">>)
        vol0 == [Name |-> id, Path |-> "", Ready |-> FALSE,
                 diskURI |-> DiskURI(id), devicePath |-> ""]
    IN  IF id \notin w.disks THEN { getFails }
        ELSE { getFails } \cup
          IF stringInSlice(w, id)
          THEN UNION {
                 IF a.err # ""
                 THEN { Res(w, NilVol, a.err, <<"Disks.Get", "Instances.Get">>) }
                 ELSE IF ~a.found
                 THEN { Res(w, NilVol, "panic", <<"Disks.Get", "Instances.Get">>) }
                 ELSE LET dev == DevicePath(a.DeviceName)
                          cs == <<"Disks.Get", "Instances.Get", "GetMountPath">>
                      IN  { Res(w, [vol0 EXCEPT !.Ready = TRUE,
                                                !.devicePath = dev,
                                                !.Path = m.path], "", cs)
                            : m \in GetMountPath(w, dev) }
                 : a \in getAttachedDisk(w, id) }
          ELSE { Res(w, vol0, "", <<"Disks.Get">>) }

getVolume(w, id) ==
    LET getFails == Res(w, NilVol, "getDisk", <<"Disks.Get">>)
        vol0 == [Name |-> id, Path |-> "", Ready |-> FALSE,
                 diskURI |-> DiskURI(id), devicePath |-> ""]
    IN  IF id \notin w.disks THEN { getFails }
        ELSE { getFails } \cup
          IF stringInSlice(w, id)
          THEN UNION {
                 IF a.err # ""
                 THEN { Res(w, NilVol, a.err, <<"Disks.Get", "Instances.Get">>) }
                 ELSE IF ~a.found
                 THEN \* attachment is nil: attachment.DeviceName panics
                      { Res(w, NilVol, "panic", <<"Disks.Get", "Instances.Get">>) }
                 ELSE LET dev == DevicePath(a.DeviceName)
                          cs == <<"Disks.Get", "Instances.Get", "GetMountPath">>
                      IN  { IF m.err # ""
                            THEN Res(w, NilVol, m.err, cs)
                            ELSE Res(w, [vol0 EXCEPT !.Ready = TRUE,
                                                     !.devicePath = dev,
                                                     !.Path = m.path], "", cs)
                            : m \in GetMountPath(w, dev) }
                 : a \in getAttachedDisk(w, id) }
          ELSE { Res(w, vol0, "", <<"Disks.Get">>) }

\* Get
GetCall(w, id) ==
    { IF g.err # "" THEN [g EXCEPT !.vol = NilVol] ELSE g : g \in getVolume(w, id) }

----------------------------------------------------------------------------
\* Zone operations.  An accepted request yields an operation that the cloud
\* completes at some later time; its effect is in place when it reports DONE.

AttachOp(vol) == [kind |-> "attach", disk |-> vol.Name, device |-> vol.Name]
DetachOp(vol) == [kind |-> "detach", disk |-> vol.Name, device |-> vol.Name]
InsertOp(id) == [kind |-> "insert", disk |-> id, device |-> NoDevice]

\* A detach removes the block device.  What was mounted from it stays
\* mounted, from a device that is gone: a device attached later under the
\* same name is a new one, with nothing mounted from it.
GoneDevice == "(gone)"

ApplyOp(w, op) ==
    CASE op.kind = "attach" ->
           IF op.disk \in w.disks /\ w.att[op.disk] = NoDevice
           THEN [w EXCEPT !.att[op.disk] = op.device] ELSE w
      [] op.kind = "detach" ->
           IF \E n \in Names : w.att[n] = op.device
           THEN [w EXCEPT
                   !.att = [n \in Names |->
                      IF w.att[n] = op.device THEN NoDevice ELSE w.att[n]],
                   !.mtab = { IF e.device = DevicePath(op.device)
                              THEN [e EXCEPT !.device = GoneDevice] ELSE e
                              : e \in w.mtab }]
           ELSE w
      [] op.kind = "insert" -> [w EXCEPT !.disks = w.disks \cup {op.disk}]

\* the polls of one wait: the first poll at which the operation reports (or
\* would report) DONE, the polls whose status fetch fails, and how long a
\* fetch takes
MaxPolls == operationWaitTimeout \div operationPollInterval
Never == MaxPolls + 2
WaitInputs ==
    [doneAt : {1, 3, MaxPolls + 1, Never},
     fetchFail : {{}, {1, 2}, {2}, 1..MaxPolls},
     latency : {0, operationPollInterval}]

\* how a wait ends: nil, the timeout error, or a panic
WaitPanic == "waitPanic"

\* a poll that takes every status it could fetch for DONE
pollOpAnyStatus(k, in) ==
    IF k \in in.fetchFail THEN WaitPanic ELSE "done"

\* one poll of waitForOp, the k-th: ZoneOperations.Get(...).Do() returns
\* (nil, err) when the fetch fails, and the op that the else branch logs is
\* that nil result (the "op, err :=" of the if statement shadows the
\* parameter), so op.Name panics; DONE returns nil; otherwise keep polling
pollOp(k, in) ==
    IF k \in in.fetchFail THEN WaitPanic
    ELSE IF k >= in.doneAt THEN "done"
    ELSE "continue"

\* the loop of waitForOp: poll while time.Since(start) < operationWaitTimeout,
\* sleeping operationPollInterval between polls; the operation may complete
\* during the sleep that follows the last poll
RECURSIVE waitLoop(_, _, _)
waitLoop(elapsed, polls, in) ==
    IF ~(elapsed < operationWaitTimeout)
    THEN [err |-> "timeout", polls |-> polls, done |-> in.doneAt <= polls + 1]
    ELSE LET k == polls + 1
             p == pollOp(k, in)
         IN  IF p = WaitPanic
             THEN [err |-> WaitPanic, polls |-> k, done |-> in.doneAt <= k]
             ELSE IF p = "done"
             THEN [err |-> "", polls |-> k, done |-> TRUE]
             ELSE waitLoop(elapsed + in.latency + operationPollInterval, k, in)

waitForOp(in) == waitLoop(0, 0, in)

\* what a wait can return, and whether the operation is DONE by then
WaitOutcomes == { [err |-> o.err, done |-> o.done] :
                  o \in { waitForOp(in) : in \in WaitInputs } }

\* the worlds after waiting for op: its effect is in place when it is DONE;
\* otherwise it never completes, or it stays in flight and completes later
AfterWait(w, op, o) ==
    IF o.done THEN { ApplyOp(w, op) }
    ELSE { w } \cup (IF Cardinality(w.pend) < MaxPending
                     THEN { [w EXCEPT !.pend = w.pend \cup {op}] } ELSE {})

\* what the caller of waitForOp returns for its outcome o: its own error
\* for an error of the wait; a panic of the wait ends the call
\* no wait is running
NoWait == [in |-> [doneAt |-> Never, fetchFail |-> {}, latency |-> 0],
           elapsed |-> 0, polls |-> 0, pc |-> "idle", err |-> ""]

WaitErr(o, wrapped) == IF o.err = WaitPanic THEN WaitPanic ELSE wrapped

\* requests the Cloud Disk service accepts (it may always reject)
AttachAccepted(w, vol) == vol.Name \in w.disks /\ w.att[vol.Name] = NoDevice
DetachAccepted(w, vol) == \E n \in Names : w.att[n] = vol.Name

attachDisk(w, vol, pre) ==
    LET req == pre \o <<"Instances.AttachDisk">>
        cs == req \o <<"ZoneOperations.Get">>
    IN  { Res(w, vol, "attachReq", req) } \cup
        IF ~AttachAccepted(w, vol) THEN {}
        ELSE UNION { { IF o.err # ""
                       THEN Res(w1, vol, WaitErr(o, "attachWait"), cs)
                       ELSE Res(w1, [vol EXCEPT !.devicePath = DevicePath(vol.Name),
                                                !.Ready = TRUE], "", cs)
                       : w1 \in AfterWait(w, AttachOp(vol), o) }
                     : o \in WaitOutcomes }

\* detachDisk that returns once the request is accepted, without waiting
detachDiskNoWait(w, vol, pre) ==
    LET req == pre \o <<"Instances.DetachDisk">>
    IN  { Res(w, vol, "detachReq", req) } \cup
        IF ~DetachAccepted(w, vol) THEN {}
        ELSE { Res(w1, [vol EXCEPT !.devicePath = ""], "", req)
               : w1 \in AfterWait(w, DetachOp(vol), [err |-> "", done |-> FALSE]) }

detachDisk(w, vol, pre) ==
    LET req == pre \o <<"Instances.DetachDisk">>
        cs == req \o <<"ZoneOperations.Get">>
    IN  { Res(w, vol, "detachReq", req) } \cup
        IF ~DetachAccepted(w, vol) THEN {}
        ELSE UNION { { IF o.err # ""
                       THEN Res(w1, vol, WaitErr(o, "detachWait"), cs)
                       ELSE Res(w1, [vol EXCEPT !.devicePath = ""], "", cs)
                       : w1 \in AfterWait(w, DetachOp(vol), o) }
                     : o \in WaitOutcomes }

----------------------------------------------------------------------------
\* Filesystem capability

FsMount(tab, device, target) ==
    tab \cup { [device |-> device, target |-> target] }
FsUnmount(tab, target) == { e \in tab : e.target # target }

\* the device node exists while some disk is attached under that device name
DeviceExists(w, dev) ==
    \E n \in Names : w.att[n] # NoDevice /\ DevicePath(w.att[n]) = dev

\* mount(8) mounts a device that exists; it refuses (EBUSY) to mount the
\* same filesystem on the mount point it is already mounted on
MountAccepted(w, device, target) ==
    /\ DeviceExists(w, device)
    /\ [device |-> device, target |-> target] \notin w.mtab

\* mountDisk that makes a filesystem on the device before it mounts it
mountDiskFormat(w, vol, pre) ==
    LET mountPoint == PathJoin(mountPath, vol.Name)
        c0 == pre \o <<"Format">>
        c1 == c0 \o <<"CreateDir">>
        c2 == c1 \o <<"Mount">>
        w1 == [w EXCEPT !.dirs = w.dirs \cup {mountPoint}]
    IN  { Res(w, vol, "format", c0), Res(w, vol, "createDir", c1),
          Res(w1, vol, "mount", c2) } \cup
        IF MountAccepted(w, vol.devicePath, mountPoint)
        THEN { Res([w1 EXCEPT !.mtab = FsMount(w1.mtab, vol.devicePath, mountPoint)],
                   [vol EXCEPT !.Path = mountPoint], "", c2) }
        ELSE {}

\* mountDisk: the mount point is created, then the device mounted on it
mountDisk(w, vol, pre) ==
    LET mountPoint == PathJoin(mountPath, vol.Name)
        c1 == pre \o <<"CreateDir">>
        c2 == c1 \o <<"Mount">>
        w1 == [w EXCEPT !.dirs = w.dirs \cup {mountPoint}]
    IN  { Res(w, vol, "createDir", c1), Res(w1, vol, "mount", c2) } \cup
        IF MountAccepted(w, vol.devicePath, mountPoint)
        THEN { Res([w1 EXCEPT !.mtab = FsMount(w1.mtab, vol.devicePath, mountPoint)],
                   [vol EXCEPT !.Path = mountPoint], "", c2) }
        ELSE {}

\* unmountDisk that removes the mount point before unmounting
unmountDiskRemoveFirst(w, vol, pre) ==
    LET c1 == pre \o <<"RemoveDir">>
        c2 == c1 \o <<"Unmount">>
        gone == [w EXCEPT !.dirs = w.dirs \ {vol.Path}]
        un(x) == [x EXCEPT !.mtab = FsUnmount(x.mtab, vol.Path)]
        v1 == [vol EXCEPT !.Path = ""]
    IN  { Res(w, vol, "unmount", c2), Res(gone, vol, "unmount", c2),
          Res(un(w), v1, "", c2), Res(un(gone), v1, "", c2) }

\* unmountDisk that returns the error of RemoveDir
unmountDiskRemoveFatal(w, vol, pre) ==
    LET c1 == pre \o <<"Unmount">>
        c2 == c1 \o <<"RemoveDir">>
        w1 == [w EXCEPT !.mtab = FsUnmount(w.mtab, vol.Path)]
        v1 == [vol EXCEPT !.Path = ""]
    IN  { Res(w, vol, "unmount", c1),
          Res(w1, vol, "removeDir", c2),
          Res([w1 EXCEPT !.dirs = w1.dirs \ {vol.Path}], v1, "", c2) }

unmountDisk(w, vol, pre) ==
    LET c1 == pre \o <<"Unmount">>
        c2 == c1 \o <<"RemoveDir">>
        w1 == [w EXCEPT !.mtab = FsUnmount(w.mtab, vol.Path)]
        v1 == [vol EXCEPT !.Path = ""]
    IN  { Res(w, vol, "unmount", c1),
          \* RemoveDir fails: logged, not returned
          Res(w1, v1, "", c2),
          Res([w1 EXCEPT !.dirs = w1.dirs \ {vol.Path}], v1, "", c2) }

----------------------------------------------------------------------------
\* Mount without the already-mounted guard
MountCallNoGuard(w, id) ==
    UNION { IF g.err # "" THEN { g }
            ELSE UNION { IF a.err # "" THEN { a }
                         ELSE { IF m.err # "" THEN m
                                ELSE [m EXCEPT !.ret = m.vol.Path]
                                : m \in mountDisk(a.w, a.vol, a.calls) }
                         : a \in IF ~g.vol.Ready
                                 THEN attachDisk(g.w, g.vol, g.calls)
                                 ELSE { g } }
            : g \in getVolume(w, id) }

\* Mount that detaches again when the mount step fails
MountCallRollback(w, id) ==
    UNION { IF g.err # "" THEN { g }
            ELSE IF g.vol.Path # ""
            THEN { [Res(g.w, g.vol, "alreadyMounted", g.calls)
                      EXCEPT !.ret = g.vol.Path] }
            ELSE UNION { IF a.err # "" THEN { a }
                         ELSE UNION { IF m.err # ""
                                      THEN { [d EXCEPT !.err = m.err]
                                             : d \in detachDisk(m.w, m.vol, m.calls) }
                                      ELSE { [m EXCEPT !.ret = m.vol.Path] }
                                      : m \in mountDisk(a.w, a.vol, a.calls) }
                         : a \in IF ~g.vol.Ready
                                 THEN attachDisk(g.w, g.vol, g.calls)
                                 ELSE { g } }
            : g \in getVolume(w, id) }

\* Mount that creates the mount point before it attaches
MountCallDirFirst(w, id) ==
    UNION { IF g.err # "" THEN { g }
            ELSE IF g.vol.Path # ""
            THEN { [Res(g.w, g.vol, "alreadyMounted", g.calls)
                      EXCEPT !.ret = g.vol.Path] }
            ELSE UNION { IF a.err # "" THEN { a }
                         ELSE { IF m.err # "" THEN m
                                ELSE [m EXCEPT !.ret = m.vol.Path]
                                : m \in mountDisk(a.w, a.vol, a.calls) }
                         : a \in IF ~g.vol.Ready
                                 THEN attachDisk(
                                        [g.w EXCEPT !.dirs = g.w.dirs \cup
                                           {PathJoin(mountPath, g.vol.Name)}],
                                        g.vol, g.calls \o <<"CreateDir">>)
                                 ELSE { g } }
            : g \in getVolume(w, id) }

\* Mount
MountCall(w, id) ==
    UNION { IF g.err # "" THEN { g }
            ELSE IF g.vol.Path # ""
            THEN { [Res(g.w, g.vol, "alreadyMounted", g.calls)
                      EXCEPT !.ret = g.vol.Path] }
            ELSE UNION { IF a.err # "" THEN { a }
                         ELSE { IF m.err # "" THEN m
                                ELSE [m EXCEPT !.ret = m.vol.Path]
                                : m \in mountDisk(a.w, a.vol, a.calls) }
                         : a \in IF ~g.vol.Ready
                                 THEN attachDisk(g.w, g.vol, g.calls)
                                 ELSE { g } }
            : g \in getVolume(w, id) }

\* Unmount without the not-mounted guard
UnmountCallNoGuard(w, id) ==
    UNION { IF g.err # "" THEN { g }
            ELSE UNION { IF u.err # "" THEN { u }
                         ELSE detachDisk(u.w, u.vol, u.calls)
                         : u \in unmountDisk(g.w, g.vol, g.calls) }
            : g \in getVolume(w, id) }

\* Unmount that detaches before it unmounts
UnmountCallDetachFirst(w, id) ==
    UNION { IF g.err # "" THEN { g }
            ELSE IF g.vol.Path = ""
            THEN { Res(g.w, g.vol, "notMounted", g.calls) }
            ELSE UNION { IF d.err # "" THEN { d }
                         ELSE unmountDisk(d.w, [d.vol EXCEPT !.Path = g.vol.Path],
                                          d.calls)
                         : d \in detachDisk(g.w, g.vol, g.calls) }
            : g \in getVolume(w, id) }

\* Unmount
UnmountCall(w, id) ==
    UNION { IF g.err # "" THEN { g }
            ELSE IF g.vol.Path = ""
            THEN { Res(g.w, g.vol, "notMounted", g.calls) }
            ELSE UNION { IF u.err # "" THEN { u }
                         ELSE detachDisk(u.w, u.vol, u.calls)
                         : u \in unmountDisk(g.w, g.vol, g.calls) }
            : g \in getVolume(w, id) }

----------------------------------------------------------------------------
\* Disk-type cache

\* the disk types of the zone, as the pages of DiskTypes.List
TypeName(k) == "type" \o ToString(k)
TypeURI(name) == "zones/z/diskTypes/" \o name
DiskType(name) == [Name |-> name, SelfLink |-> TypeURI(name)]
PageItems(k) == { DiskType(TypeName(k)) }

\* loadDiskTypes: d.diskTypes is replaced by an empty map, which the pages
\* fill in order; the listing fails at page failAt (none: NumPages + 1)
loadDiskTypes(w) ==
    { LET loaded == UNION { PageItems(k) : k \in 1..(failAt - 1) }
          m == [n \in { t.Name : t \in loaded } |-> DiskType(n)]
      IN  [w |-> [w EXCEPT !.diskTypes = MakeMap(m)],
           err |-> IF failAt <= NumPages THEN "listTypes" ELSE ""]
      : failAt \in 1..(NumPages + 1) }

NoType == [Name |-> "", SelfLink |-> ""]

\* the callers that may run concurrently (each request of the plugin is
\* served by its own goroutine, on the one driver)
Procs == {"c1", "c2"}

\* the names looked up: the types of the first and of the last page, and one
\* that does not exist
LookupNames == {TypeName(1), TypeName(NumPages), "nope"}

\* "for _, disk := range page.Items { d.diskTypes[disk.Name] = disk }"
PutAll(m, items) ==
    [n \in DOMAIN m \cup { t.Name : t \in items } |->
       IF \E t \in items : t.Name = n THEN DiskType(n) ELSE m[n]]

\* the maps a listing leaves behind: the first j pages
LoadedPages(j) ==
    LET loaded == UNION { PageItems(k) : k \in 1..j }
    IN  MakeMap([n \in { t.Name : t \in loaded } |-> DiskType(n)])

\* no lookup is running
NoLookup == [name |-> "", pc |-> "idle", fresh |-> FALSE, page |-> 0,
             listings |-> 0, res |-> "", diskType |-> NoType, cache0 |-> NilMap]
NoLookups == [p \in Procs |-> NoLookup]

\* no Mount is running
NoMount == [Name |-> Nil, pc |-> "idle", Ready |-> FALSE, Path |-> "",
            devicePath |-> "", err |-> "", ret |-> ""]
NoMounts == [p \in Procs |-> NoMount]

\* "for !fresh"
LoopAgain(fresh) == ~fresh

\* a lookup that never records that it has reloaded
FreshNeverSet == FALSE

\* "fresh = true" after loadDiskTypes
FreshAfterLoad == TRUE

\* getDiskType: the loop "for !fresh"
RECURSIVE getDiskTypeLoop(_, _, _, _)
getDiskTypeLoop(w, name, fresh, calls) ==
    IF fresh
    THEN { [w |-> w, err |-> "typeNotFound", diskType |-> NoType, calls |-> calls] }
    ELSE LET loads == IF w.diskTypes.isNil
                      THEN { [w |-> l.w, err |-> l.err, fresh |-> TRUE,
                              calls |-> calls \o <<"DiskTypes.List">>]
                             : l \in loadDiskTypes(w) }
                      ELSE { [w |-> w, err |-> "", fresh |-> FALSE, calls |-> calls] }
         IN  UNION { IF l.err # ""
                     THEN { [w |-> l.w, err |-> l.err, diskType |-> NoType,
                             calls |-> l.calls] }
                     ELSE IF name \in DOMAIN l.w.diskTypes.m
                     THEN { [w |-> l.w, err |-> "", diskType |-> l.w.diskTypes.m[name],
                             calls |-> l.calls] }
                     ELSE \* invalidate cache
                          getDiskTypeLoop([l.w EXCEPT !.diskTypes = NilMap], name,
                                          l.fresh, l.calls)
                     : l \in loads }

getDiskType(w, name) == getDiskTypeLoop(w, name, FALSE, <<>>)

----------------------------------------------------------------------------
\* Volume options

Digits == <<"0", "1", "2", "3", "4", "5", "6", "7", "8", "9">>
DigitValue(c) == (CHOOSE i \in 1..10 : Digits[i] = c) - 1
IsDigit(c) == \E i \in 1..10 : Digits[i] = c

\* the characters of the option values used here
Chars(value) ==
    CASE value = "20" -> <<"2", "0">>
      [] value = "abc" -> <<"a", "b", "c">>
      [] OTHER -> <<>>

\* strconv.ParseInt(value, 10, 64) of an unsigned decimal that fits
RECURSIVE ParseDigits(_, _)
ParseDigits(cs, acc) ==
    IF cs = <<>> THEN [ok |-> TRUE, n |-> acc]
    ELSE IF ~IsDigit(Head(cs)) THEN [ok |-> FALSE, n |-> 0]
    ELSE ParseDigits(Tail(cs), 10 * acc + DigitValue(Head(cs)))

ParseInt(value) ==
    IF Chars(value) = <<>> THEN [ok |-> FALSE, n |-> 0]
    ELSE ParseDigits(Chars(value), 0)

\* parseVolumeOption that skips an option it does not know
parseVolumeOptionIgnore(w, opts, key, value) ==
    CASE key = "sizeGb" ->
           LET p == ParseInt(value)
           IN  { [w |-> w, err |-> "", calls |-> <<>>,
                  opts |-> IF p.ok THEN [opts EXCEPT !.sizeGb = p.n] ELSE opts] }
      [] key = "type" ->
           { [w |-> t.w, err |-> "", calls |-> t.calls,
              opts |-> IF t.err = ""
                       THEN [opts EXCEPT !.diskTypeURI = t.diskType.SelfLink]
                       ELSE opts]
             : t \in getDiskType(w, value) }
      [] OTHER ->
           { [w |-> w, err |-> "", calls |-> <<>>, opts |-> opts] }

\* parseVolumeOption: the err it returns is the outer one, which the two
\* recognised cases never assign (theirs is declared by the if statement)
parseVolumeOption(w, opts, key, value) ==
    CASE key = "sizeGb" ->
           LET p == ParseInt(value)
           IN  { [w |-> w, err |-> "", calls |-> <<>>,
                  opts |-> IF p.ok THEN [opts EXCEPT !.sizeGb = p.n] ELSE opts] }
      [] key = "type" ->
           { [w |-> t.w, err |-> "", calls |-> t.calls,
              opts |-> IF t.err = ""
                       THEN [opts EXCEPT !.diskTypeURI = t.diskType.SelfLink]
                       ELSE opts]
             : t \in getDiskType(w, value) }
      [] OTHER ->
           { [w |-> w, err |-> "unknownOption", calls |-> <<>>, opts |-> opts] }

\* the orders in which "for key, value := range opts" can visit the keys
Orders(S) ==
    { o \in [1..Cardinality(S) -> S] :
        \A i, j \in 1..Cardinality(S) : o[i] = o[j] => i = j }

RECURSIVE parseLoop(_, _, _, _, _)
parseLoop(w, parsed, opts, order, calls) ==
    IF order = <<>>
    THEN { [w |-> w, opts |-> parsed, err |-> "", key |-> "", calls |-> calls] }
    ELSE LET key == Head(order)
         IN  UNION { IF o.err # ""
                     THEN { [w |-> o.w, opts |-> parsed, err |-> "option",
                             key |-> key, calls |-> calls \o o.calls] }
                     ELSE parseLoop(o.w, o.opts, opts, Tail(order),
                                    calls \o o.calls)
                     : o \in parseVolumeOption(w, parsed, key, opts[key]) }

parseVolumeOptions(w, opts) ==
    UNION { parseLoop(w, [sizeGb |-> defaultVolumeSizeGb, diskTypeURI |-> ""],
                      opts, order, <<>>)
            : order \in Orders(DOMAIN opts) }

\* the option maps Create is called with
NoOptions == [k \in {} |-> ""]
OptionSets ==
    { NoOptions,
      "sizeGb" :> "20",
      "sizeGb" :> "abc",
      "type" :> TypeName(1),
      "type" :> "nope",
      "bogus" :> "x",
      ("sizeGb" :> "20") @@ ("type" :> TypeName(NumPages)),
      ("type" :> TypeName(1)) @@ ("bogus" :> "x") }

----------------------------------------------------------------------------
\* Create

InsertAccepted(w, id) == id \notin w.disks

createDisk(w, id, opts, pre) ==
    LET req == pre \o <<"Disks.Insert">>
        cs == req \o <<"ZoneOperations.Get">>
        disk == [SizeGb |-> opts.sizeGb, Type |-> opts.diskTypeURI]
        vol == [Name |-> id, Path |-> "", Ready |-> FALSE,
                diskURI |-> DiskURI(id), devicePath |-> ""]
    IN  { Res(w, NilVol, "createReq", req) } \cup
        IF ~InsertAccepted(w, id) THEN {}
        ELSE UNION { { [Res(w1, IF o.err # "" THEN NilVol ELSE vol,
                            IF o.err # "" THEN WaitErr(o, "createWait") ELSE "",
                            cs)
                          EXCEPT !.disk = disk]
                       : w1 \in AfterWait(w, InsertOp(id), o) }
                     : o \in WaitOutcomes }

\* d.fs.Format(vol.devicePath)
Format(w, vol, pre) ==
    { Res(w, vol, "format", pre \o <<"Format">>) } \cup
    IF DeviceExists(w, vol.devicePath)
    THEN { Res(w, vol, "", pre \o <<"Format">>) } ELSE {}

\* the result of a later step, for the disk requested by step c
Keep(c, r) == [r EXCEPT !.disk = c.disk]

\* Create that deletes the disk again when a step after createDisk fails
CreateCallRollback(w, id, optsMap) ==
    LET undo(r) == [r EXCEPT !.vol = NilVol,
                             !.w = ApplyOp([r.w EXCEPT !.disks = r.w.disks \ {id}],
                                           [kind |-> "detach", disk |-> id,
                                            device |-> id]),
                             !.calls = r.calls \o <<"Disks.Delete">>]
    IN
    UNION { IF p.err # ""
            THEN { [Res(p.w, NilVol, p.err, p.calls) EXCEPT !.key = p.key] }
            ELSE UNION {
              IF c.err # "" THEN { c }
              ELSE UNION {
                IF a.err # "" THEN { Keep(c, undo(a)) }
                ELSE UNION {
                  IF f.err # "" THEN { Keep(c, undo(f)) }
                  ELSE { Keep(c, IF m.err # "" THEN undo(m) ELSE m)
                         : m \in mountDisk(f.w, f.vol, f.calls) }
                  : f \in Format(a.w, a.vol, a.calls) }
                : a \in attachDisk(c.w, c.vol, c.calls) }
              : c \in createDisk(p.w, id, p.opts, p.calls) }
            : p \in parseVolumeOptions(w, optsMap) }

\* Create that formats after it has mounted
CreateCallFormatLast(w, id, optsMap) ==
    UNION { IF p.err # ""
            THEN { [Res(p.w, NilVol, p.err, p.calls) EXCEPT !.key = p.key] }
            ELSE UNION {
              IF c.err # "" THEN { c }
              ELSE UNION {
                IF a.err # "" THEN { Keep(c, [a EXCEPT !.vol = NilVol]) }
                ELSE UNION {
                  IF m.err # "" THEN { Keep(c, [m EXCEPT !.vol = NilVol]) }
                  ELSE { Keep(c, IF f.err # "" THEN [f EXCEPT !.vol = NilVol]
                                 ELSE f)
                         : f \in Format(m.w, m.vol, m.calls) }
                  : m \in mountDisk(a.w, a.vol, a.calls) }
                : a \in attachDisk(c.w, c.vol, c.calls) }
              : c \in createDisk(p.w, id, p.opts, p.calls) }
            : p \in parseVolumeOptions(w, optsMap) }

CreateCall(w, id, optsMap) ==
    UNION { IF p.err # ""
            THEN { [Res(p.w, NilVol, p.err, p.calls) EXCEPT !.key = p.key] }
            ELSE UNION {
              IF c.err # "" THEN { c }
              ELSE UNION {
                IF a.err # "" THEN { Keep(c, [a EXCEPT !.vol = NilVol]) }
                ELSE UNION {
                  IF f.err # "" THEN { Keep(c, [f EXCEPT !.vol = NilVol]) }
                  ELSE { Keep(c, IF m.err # "" THEN [m EXCEPT !.vol = NilVol]
                                 ELSE m)
                         : m \in mountDisk(f.w, f.vol, f.calls) }
                  : f \in Format(a.w, a.vol, a.calls) }
                : a \in attachDisk(c.w, c.vol, c.calls) }
              : c \in createDisk(p.w, id, p.opts, p.calls) }
            : p \in parseVolumeOptions(w, optsMap) }

\* Remove
RemoveCall(w, id) == { Res(w, NilVol, "notSupported", <<>>) }

\* List: the names of the disks, or the error of the listing
ListCall(w) ==
    { Res(w, NilVol, "list", <<"Disks.List">>),
      [Res(w, NilVol, "", <<"Disks.List">>) EXCEPT !.list = w.disks] }

----------------------------------------------------------------------------
Call(op, id, r) ==
    [op |-> op, name |-> id, err |-> r.err, calls |-> r.calls, ret |-> r.ret,
     disk |-> r.disk, key |-> r.key, list |-> r.list,
     vol |-> [Name |-> r.vol.Name, Path |-> r.vol.Path, Ready |-> r.vol.Ready]]

Summary(c) == [op |-> c.op, name |-> c.name, err |-> c.err, ret |-> c.ret]

Install(op, id, r) ==
    /\ disks' = r.w.disks
    /\ att' = r.w.att
    /\ mtab' = r.w.mtab
    /\ dirs' = r.w.dirs
    /\ diskTypes' = r.w.diskTypes
    /\ pend' = r.w.pend
    /\ last' = Call(op, id, r)

Get == \E id \in Names : \E r \in GetCall(World, id) : Install("Get", id, r)

Mount == \E id \in Names : \E r \in MountCall(World, id) : Install("Mount", id, r)

Unmount ==
    \E id \in Names : \E r \in UnmountCall(World, id) : Install("Unmount", id, r)

Create ==
    \E id \in Names : \E optsMap \in OptionSets :
        \E r \in CreateCall(World, id, optsMap) : Install("Create", id, r)

Remove == \E id \in Names : \E r \in RemoveCall(World, id) : Install("Remove", id, r)

List == \E r \in ListCall(World) : Install("List", Nil, r)

\* an operation left in flight completes
Settle ==
    \E op \in pend :
        Install("settle", op.disk,
                Res([ApplyOp(World, op) EXCEPT !.pend = pend \ {op}], NilVol, "",
                    <<op.kind>>))

\* the cloud and the filesystem when the driver starts: the disk may exist
\* and be attached under a foreign device name
InitCloud ==
    /\ disks \in { {}, Names }
    /\ att \in { [n \in Names |-> NoDevice] } \cup
               IF disks = {} THEN {}
               ELSE { [n \in Names |-> ForeignDevice] }
    /\ mtab = {}
    /\ dirs = {}
    /\ pend = {}
    /\ last = [op |-> "none", name |-> Nil, err |-> "", calls |-> <<>>, ret |-> "",
               disk |-> NoDisk, key |-> "", list |-> {},
               vol |-> [Name |-> Nil, Path |-> "", Ready |-> FALSE]]

    /\ prev = [op |-> "none", name |-> Nil, err |-> "", ret |-> ""]
    /\ detachFailed = {}

\* the driver after construction: no disk types cached
InitDriver ==
    /\ InitCloud
    /\ diskTypes = NilMap

Init ==
    /\ InitDriver
    /\ wt = NoWait
    /\ lk = NoLookups
    /\ mr = NoMounts

DetachErrs == {"detachReq", "detachWait"}

Track ==
    /\ prev' = Summary(last)
    /\ detachFailed' =
         IF last'.op = "Unmount" /\ last'.err \in DetachErrs
            /\ att'[last'.name] # NoDevice
         THEN detachFailed \cup {last'.name} ELSE detachFailed
    /\ UNCHANGED <<wt, lk, mr>>

Untracked == UNCHANGED <<prev, detachFailed, wt, lk, mr>>

\* every operation of the driver, in any order
Next ==
    \/ Create /\ Untracked
    \/ Remove /\ Untracked
    \/ List /\ Untracked
    \/ Get /\ Untracked
    \/ Mount /\ Untracked
    \/ Unmount /\ Untracked
    \/ Settle /\ Untracked

Spec == Init /\ [][Next]_vars

\* the operations on existing disks, remembering the call before the last
MountNext ==
    \/ Get /\ Track
    \/ Mount /\ Track
    \/ Unmount /\ Track
    \/ Settle /\ Track

MountSpec == Init /\ [][MountNext]_vars

----------------------------------------------------------------------------
\* waitForOp, one statement at a time: the loop condition, the body (one
\* status poll) and the sleep of the post statement

Driver == <<disks, att, mtab, dirs, diskTypes, pend, last, prev, detachFailed>>

\* the operations waited for: any first poll that reports DONE, or none
WaitRuns ==
    [doneAt : 1..Never,
     fetchFail : {{}, {1, 2}, {2}, 1..MaxPolls},
     latency : {0, operationPollInterval}]

\* start := time.Now()
WaitInit ==
    /\ InitDriver
    /\ disks = {}
    /\ lk = NoLookups
    /\ mr = NoMounts
    /\ wt \in { [in |-> i, elapsed |-> 0, polls |-> 0, pc |-> "cond", err |-> ""]
                : i \in WaitRuns }

\* time.Since(start) < operationWaitTimeout; when it is false: return the
\* timeout error
WaitCond ==
    /\ wt.pc = "cond"
    /\ wt' = IF wt.elapsed < operationWaitTimeout
             THEN [wt EXCEPT !.pc = "body"]
             ELSE [wt EXCEPT !.pc = "returned", !.err = "timeout"]
    /\ UNCHANGED <<Driver, lk, mr>>

\* ZoneOperations.Get and what the body does with its result
WaitPoll ==
    /\ wt.pc = "body"
    /\ LET k == wt.polls + 1
           p == pollOp(k, wt.in)
           w1 == [wt EXCEPT !.polls = k, !.elapsed = wt.elapsed + wt.in.latency]
       IN  wt' = CASE p = WaitPanic ->
                        [w1 EXCEPT !.pc = "returned", !.err = WaitPanic]
                   [] p = "done" -> [w1 EXCEPT !.pc = "returned", !.err = ""]
                   [] OTHER -> [w1 EXCEPT !.pc = "sleep"]
    /\ UNCHANGED <<Driver, lk, mr>>

\* time.Sleep(operationPollInterval)
WaitSleep ==
    /\ wt.pc = "sleep"
    /\ wt' = [wt EXCEPT !.pc = "cond",
                        !.elapsed = wt.elapsed + operationPollInterval]
    /\ UNCHANGED <<Driver, lk, mr>>

WaitNext == WaitCond \/ WaitPoll \/ WaitSleep

WaitSpec == WaitInit /\ [][WaitNext]_vars

----------------------------------------------------------------------------
\* getDiskType and loadDiskTypes, one statement at a time, for two callers
\* that share d.diskTypes.  Every access goes through the field, so the
\* field's value stands for the map it refers to.

NotCache == <<disks, att, mtab, dirs, pend, last, prev, detachFailed, wt, mr>>

\* the cache is nil, or what an earlier listing left: some first pages
CacheInit ==
    /\ InitCloud
    /\ disks = {}
    /\ wt = NoWait
    /\ mr = NoMounts
    /\ diskTypes \in {NilMap} \cup { LoadedPages(j) : j \in 0..NumPages }
    /\ lk \in { [p \in Procs |-> [NoLookup EXCEPT !.name = f[p],
                                                  !.cache0 = diskTypes]]
                : f \in [Procs -> LookupNames] }

Step(p, rec) == lk' = [lk EXCEPT ![p] = rec]
Running(p) == lk[p].pc \notin {"idle", "done", "fatal"}

\* getDiskType(name) is called: fresh := false
LkStart(p) ==
    /\ lk[p].pc = "idle"
    /\ Step(p, [lk[p] EXCEPT !.pc = "loop"])
    /\ UNCHANGED <<diskTypes, NotCache>>

\* for !fresh { ... }; return nil, "disk type not found"
LkLoop(p) ==
    /\ lk[p].pc = "loop"
    /\ Step(p, IF LoopAgain(lk[p].fresh)
               THEN [lk[p] EXCEPT !.pc = "nilcheck"]
               ELSE [lk[p] EXCEPT !.pc = "done", !.res = "typeNotFound"])
    /\ UNCHANGED <<diskTypes, NotCache>>

\* if d.diskTypes == nil
LkNilCheck(p) ==
    /\ lk[p].pc = "nilcheck"
    /\ Step(p, [lk[p] EXCEPT !.pc = IF diskTypes.isNil THEN "make" ELSE "lookup"])
    /\ UNCHANGED <<diskTypes, NotCache>>

\* loadDiskTypes: d.diskTypes = make(map); call.Pages starts the listing
LkMake(p) ==
    /\ lk[p].pc = "make"
    /\ diskTypes' = MakeMap(<<>>)
    /\ Step(p, [lk[p] EXCEPT !.pc = "page", !.page = 1,
                             !.listings = lk[p].listings + 1])
    /\ UNCHANGED NotCache

\* one page of the listing: the request fails and getDiskType returns the
\* error, or the callback stores the page's items in d.diskTypes, which
\* panics when the map is nil; after the last page: fresh = true
LkPage(p) ==
    /\ lk[p].pc = "page"
    /\ \/ /\ Step(p, [lk[p] EXCEPT !.pc = "done", !.res = "listTypes"])
          /\ UNCHANGED diskTypes
       \/ /\ diskTypes.isNil
          /\ Step(p, [lk[p] EXCEPT !.pc = "done", !.res = "panic"])
          /\ UNCHANGED diskTypes
       \/ /\ ~diskTypes.isNil
          /\ diskTypes' = MakeMap(PutAll(diskTypes.m, PageItems(lk[p].page)))
          /\ Step(p, IF lk[p].page < NumPages
                     THEN [lk[p] EXCEPT !.page = lk[p].page + 1]
                     ELSE [lk[p] EXCEPT !.pc = "lookup",
                                        !.fresh = FreshAfterLoad])
    /\ UNCHANGED NotCache

\* if disk, exists := d.diskTypes[name]; exists { return disk, nil }
LkLookup(p) ==
    /\ lk[p].pc = "lookup"
    /\ Step(p, IF ~diskTypes.isNil /\ lk[p].name \in DOMAIN diskTypes.m
               THEN [lk[p] EXCEPT !.pc = "done",
                                  !.diskType = diskTypes.m[lk[p].name]]
               ELSE [lk[p] EXCEPT !.pc = "invalidate"])
    /\ UNCHANGED <<diskTypes, NotCache>>

\* d.diskTypes = nil
LkInvalidate(p) ==
    /\ lk[p].pc = "invalidate"
    /\ diskTypes' = NilMap
    /\ Step(p, [lk[p] EXCEPT !.pc = "loop"])
    /\ UNCHANGED NotCache

\* a write to the map while the other caller writes or reads it is a data
\* race: the runtime may detect it and end the program ("fatal error:
\* concurrent map writes"), or the accesses go through one after the other
LkFatal ==
    /\ \E p, q \in Procs :
         /\ p # q
         /\ lk[p].pc = "page" /\ lk[q].pc \in {"page", "lookup"}
         /\ ~diskTypes.isNil
    /\ lk' = [p \in Procs |->
                IF Running(p) THEN [lk[p] EXCEPT !.pc = "fatal", !.res = "fatal"]
                ELSE lk[p]]
    /\ UNCHANGED <<diskTypes, NotCache>>

CacheNext ==
    \/ \E p \in Procs : LkStart(p)
    \/ \E p \in Procs : LkLoop(p)
    \/ \E p \in Procs : LkNilCheck(p)
    \/ \E p \in Procs : LkMake(p)
    \/ \E p \in Procs : LkPage(p)
    \/ \E p \in Procs : LkLookup(p)
    \/ \E p \in Procs : LkInvalidate(p)
    \/ LkFatal

CacheSpec == CacheInit /\ [][CacheNext]_vars

----------------------------------------------------------------------------
\* Mount(name), one capability call at a time, for two callers of the same
\* volume; the driver takes no lock.  The attach operation a caller waits
\* for completes in a step of the cloud.

NotRace == <<disks, diskTypes, last, prev, detachFailed, wt, lk>>

\* the volume exists and is not attached
RaceInit ==
    /\ InitCloud
    /\ disks = Names /\ att = [n \in Names |-> NoDevice]
    /\ diskTypes = NilMap
    /\ wt = NoWait
    /\ lk = NoLookups
    /\ mr \in { [p \in Procs |-> [NoMount EXCEPT !.Name = n]] : n \in Names }

RStep(p, rec) == mr' = [mr EXCEPT ![p] = rec]
\* the call of p ends and returns (ret, err)
Fin(p, ret, err) == RStep(p, [mr[p] EXCEPT !.pc = "done", !.ret = ret, !.err = err])

\* the Cloud Disk service rejects an attach of a disk that is attached or
\* being attached (it may reject any request)
AttachAcceptedOnce(vol) ==
    /\ AttachAccepted(World, vol)
    /\ AttachOp(vol) \notin pend

\* getVolume: Disks.Get and the test of disk.Users
MrGetDisk(p) ==
    /\ mr[p].pc = "idle"
    /\ \/ Fin(p, "", "getDisk")
       \/ /\ mr[p].Name \in disks
          /\ RStep(p, IF stringInSlice(World, mr[p].Name)
                      THEN [mr[p] EXCEPT !.pc = "getAttached", !.Ready = TRUE]
                      ELSE [mr[p] EXCEPT !.pc = "guard"])
    /\ UNCHANGED <<att, mtab, dirs, pend, NotRace>>

\* getVolume: getAttachedDisk and the use of its result
MrGetAttached(p) ==
    /\ mr[p].pc = "getAttached"
    /\ \E a \in getAttachedDisk(World, mr[p].Name) :
         IF a.err # "" THEN Fin(p, "", a.err)
         ELSE IF ~a.found THEN Fin(p, "", "panic")
         ELSE RStep(p, [mr[p] EXCEPT !.pc = "getMountPath",
                                     !.devicePath = DevicePath(a.DeviceName)])
    /\ UNCHANGED <<att, mtab, dirs, pend, NotRace>>

\* getVolume: mountpath.GetMountPath
MrGetMountPath(p) ==
    /\ mr[p].pc = "getMountPath"
    /\ \E m \in GetMountPath(World, mr[p].devicePath) :
         IF m.err # "" THEN Fin(p, "", m.err)
         ELSE RStep(p, [mr[p] EXCEPT !.pc = "guard", !.Path = m.path])
    /\ UNCHANGED <<att, mtab, dirs, pend, NotRace>>

\* Mount: the already-mounted guard and "if !vol.Ready"
MrGuard(p) ==
    /\ mr[p].pc = "guard"
    /\ IF mr[p].Path # "" THEN Fin(p, mr[p].Path, "alreadyMounted")
       ELSE RStep(p, [mr[p] EXCEPT !.pc = IF mr[p].Ready THEN "createDir"
                                          ELSE "attachReq"])
    /\ UNCHANGED <<att, mtab, dirs, pend, NotRace>>

\* attachDisk: Instances.AttachDisk
MrAttachReq(p) ==
    /\ mr[p].pc = "attachReq"
    /\ \/ Fin(p, "", "attachReq") /\ UNCHANGED pend
       \/ /\ AttachAcceptedOnce(mr[p])
          /\ pend' = pend \cup {AttachOp(mr[p])}
          /\ RStep(p, [mr[p] EXCEPT !.pc = "wait"])
    /\ UNCHANGED <<att, mtab, dirs, NotRace>>

\* attachDisk: waitForOp returns nil once the operation is DONE, or gives
\* up with the timeout, or panics on a failed status fetch
MrWait(p) ==
    /\ mr[p].pc = "wait"
    /\ \/ /\ AttachOp(mr[p]) \notin pend
          /\ RStep(p, [mr[p] EXCEPT !.pc = "createDir", !.Ready = TRUE,
                                    !.devicePath = DevicePath(mr[p].Name)])
       \/ Fin(p, "", "attachWait")
       \/ Fin(p, "", WaitPanic)
    /\ UNCHANGED <<att, mtab, dirs, pend, NotRace>>

\* the cloud completes an operation in flight
CloudDone ==
    /\ \E op \in pend :
         LET w1 == ApplyOp(World, op)
         IN  /\ att' = w1.att
             /\ mtab' = w1.mtab
             /\ pend' = pend \ {op}
    /\ UNCHANGED <<dirs, mr, NotRace>>

\* mountDisk: d.fs.CreateDir
MrCreateDir(p) ==
    /\ mr[p].pc = "createDir"
    /\ \/ Fin(p, "", "createDir") /\ UNCHANGED dirs
       \/ /\ dirs' = dirs \cup {PathJoin(mountPath, mr[p].Name)}
          /\ RStep(p, [mr[p] EXCEPT !.pc = "mount"])
    /\ UNCHANGED <<att, mtab, pend, NotRace>>

\* mountDisk: d.fs.Mount, and the return of Mount
MrMount(p) ==
    /\ mr[p].pc = "mount"
    /\ LET mountPoint == PathJoin(mountPath, mr[p].Name)
       IN  \/ Fin(p, "", "mount") /\ UNCHANGED mtab
           \/ /\ MountAccepted(World, mr[p].devicePath, mountPoint)
              /\ mountPoint \in dirs
              /\ mtab' = FsMount(mtab, mr[p].devicePath, mountPoint)
              /\ RStep(p, [mr[p] EXCEPT !.pc = "done", !.Path = mountPoint,
                                        !.ret = mountPoint])
    /\ UNCHANGED <<att, dirs, pend, NotRace>>

RaceNext ==
    \/ \E p \in Procs : MrGetDisk(p)
    \/ \E p \in Procs : MrGetAttached(p)
    \/ \E p \in Procs : MrGetMountPath(p)
    \/ \E p \in Procs : MrGuard(p)
    \/ \E p \in Procs : MrAttachReq(p)
    \/ \E p \in Procs : MrWait(p)
    \/ \E p \in Procs : MrCreateDir(p)
    \/ \E p \in Procs : MrMount(p)
    \/ CloudDone

RaceSpec == RaceInit /\ [][RaceNext]_vars
----------------------------------------------------------------------------
\* A Mount and an Unmount of the same volume, running concurrently

Mounter == "c1"
Unmounter == "c2"

\* the steps of Unmount after its guard, in the order of the code
UmOrderDetachFirst == <<"detachReq", "detachWait", "unmount", "removeDir">>

UmOrder == <<"unmount", "removeDir", "detachReq", "detachWait">>

\* the step that follows step pc of Unmount ("guard": the first one)
UmAfter(pc) ==
    IF pc = "guard" THEN UmOrder[1]
    ELSE LET i == CHOOSE k \in DOMAIN UmOrder : UmOrder[k] = pc
         IN  IF i = Len(UmOrder) THEN "done" ELSE UmOrder[i + 1]

\* the step is done: go on to the next one, or return nil after the last
UmGo(p, rec) ==
    RStep(p, [rec EXCEPT !.pc = UmAfter(mr[p].pc)])

\* the volume exists; it is detached, or attached under its name and not
\* mounted, or attached and mounted on its mount point
MuInit ==
    /\ disks = Names
    /\ \E n \in Names :
         /\ mr = [p \in Procs |-> [NoMount EXCEPT !.Name = n]]
         /\ \/ /\ att = [m \in Names |-> NoDevice]
               /\ mtab = {} /\ dirs = {}
            \/ /\ att = [m \in Names |-> IF m = n THEN n ELSE NoDevice]
               /\ mtab = {} /\ dirs \in { {}, {PathJoin(mountPath, n)} }
            \/ /\ att = [m \in Names |-> IF m = n THEN n ELSE NoDevice]
               /\ mtab = FsMount({}, DevicePath(n), PathJoin(mountPath, n))
               /\ dirs = {PathJoin(mountPath, n)}
    /\ pend = {}
    /\ last = [op |-> "none", name |-> Nil, err |-> "", calls |-> <<>>, ret |-> "",
               disk |-> NoDisk, key |-> "", list |-> {},
               vol |-> [Name |-> Nil, Path |-> "", Ready |-> FALSE]]
    /\ prev = [op |-> "none", name |-> Nil, err |-> "", ret |-> ""]
    /\ detachFailed = {}
    /\ diskTypes = NilMap
    /\ wt = NoWait
    /\ lk = NoLookups

\* Unmount: the not-mounted guard
UmGuard(p) ==
    /\ mr[p].pc = "guard"
    /\ IF mr[p].Path = "" THEN Fin(p, "", "notMounted")
       ELSE UmGo(p, mr[p])
    /\ UNCHANGED <<att, mtab, dirs, pend, NotRace>>

\* unmountDisk: d.fs.Unmount(vol.Path)
UmUnmount(p) ==
    /\ mr[p].pc = "unmount"
    /\ \/ Fin(p, "", "unmount") /\ UNCHANGED mtab
       \/ /\ mtab' = FsUnmount(mtab, mr[p].Path)
          /\ UmGo(p, mr[p])
    /\ UNCHANGED <<att, dirs, pend, NotRace>>

\* unmountDisk: d.fs.RemoveDir(vol.Path), whose error is only logged
UmRemoveDir(p) ==
    /\ mr[p].pc = "removeDir"
    /\ \/ UNCHANGED dirs
       \/ dirs' = dirs \ {mr[p].Path}
    /\ UmGo(p, [mr[p] EXCEPT !.Path = ""])
    /\ UNCHANGED <<att, mtab, pend, NotRace>>

\* detachDisk: Instances.DetachDisk
UmDetachReq(p) ==
    /\ mr[p].pc = "detachReq"
    /\ \/ Fin(p, "", "detachReq") /\ UNCHANGED pend
       \/ /\ DetachAccepted(World, mr[p])
          /\ pend' = pend \cup {DetachOp(mr[p])}
          /\ UmGo(p, mr[p])
    /\ UNCHANGED <<att, mtab, dirs, NotRace>>

\* detachDisk: waitForOp returns nil once the operation is DONE, or gives
\* up with the timeout, or panics on a failed status fetch
UmWait(p) ==
    /\ mr[p].pc = "detachWait"
    /\ \/ /\ DetachOp(mr[p]) \notin pend
          /\ UmGo(p, [mr[p] EXCEPT !.devicePath = ""])
       \/ Fin(p, "", "detachWait")
       \/ Fin(p, "", WaitPanic)
    /\ UNCHANGED <<att, mtab, dirs, pend, NotRace>>

MuNext ==
    \/ \E p \in Procs : MrGetDisk(p)
    \/ \E p \in Procs : MrGetAttached(p)
    \/ \E p \in Procs : MrGetMountPath(p)
    \/ MrGuard(Mounter)
    \/ MrAttachReq(Mounter)
    \/ MrWait(Mounter)
    \/ MrCreateDir(Mounter)
    \/ MrMount(Mounter)
    \/ UmGuard(Unmounter)
    \/ UmUnmount(Unmounter)
    \/ UmRemoveDir(Unmounter)
    \/ UmDetachReq(Unmounter)
    \/ UmWait(Unmounter)
    \/ CloudDone

MountUnmountSpec == MuInit /\ [][MuNext]_vars
----------------------------------------------------------------------------
\* Properties

In(calls, c) == \E i \in DOMAIN calls : calls[i] = c

\* errors of state discovery (getVolume)
LookupErrs == {"getDisk", "getAttached", "panic", "mountPath"}
AttachErrs == {"attachReq", "attachWait"}
MountStepErrs == {"createDir", "mount"}
Lookups == <<"Disks.Get", "Instances.Get", "GetMountPath">>

Attached(n) == att[n] # NoDevice
\* the mount point of the device of disk n, "" when detached or unmounted
GetPath(n) ==
    IF Attached(n) THEN MountPointOf(mtab, DevicePath(att[n])) ELSE ""
MountPoint(n) == PathJoin(mountPath, n)
MountedLocally(n) == \E e \in mtab : e.target = MountPoint(n)

\* what Get(n) reports when its lookups succeed
View(n) == { [Ready |-> g.vol.Ready, Path |-> g.vol.Path] :
             g \in { h \in GetCall(World, n) : h.err = "" } }

\* C1: every Volume that Get returns and every Volume that Get can return in
\* a reachable state has Ready set when its Path is not empty.
C1_PathImpliesReady ==
    /\ (last.op = "Get" /\ last.err = "")
         => (last.vol.Path # "" => last.vol.Ready)
    /\ \A n \in Names : \A v \in View(n) : v.Path # "" => v.Ready

C1_Witness ==
    last.op = "Get" /\ last.err = "" /\ last.vol.Path # "" /\ last.vol.Ready

\* C2: a Mount that directly follows a successful Mount of the same name
\* issues no attach request, no directory creation and no mount; when its
\* state discovery succeeds it returns the path of the first call together
\* with the already-mounted error.
C2_MountTwice ==
    (prev.op = "Mount" /\ prev.err = "" /\ last.op = "Mount"
       /\ last.name = prev.name)
    => /\ ~In(last.calls, "Instances.AttachDisk")
       /\ ~In(last.calls, "CreateDir")
       /\ ~In(last.calls, "Mount")
       /\ last.err \notin LookupErrs
            => /\ last.err = "alreadyMounted"
               /\ last.ret = prev.ret
               /\ last.ret = MountPoint(last.name)

C2_Witness ==
    /\ prev.op = "Mount" /\ prev.err = ""
    /\ last.op = "Mount" /\ last.name = prev.name
    /\ last.err = "alreadyMounted" /\ last.ret = prev.ret /\ last.ret # ""

\* C3 as stated: an Unmount that fails with the not-mounted error has invoked
\* no operation of the Filesystem or Cloud Disk capability.
C3_Original ==
    (last.op = "Unmount" /\ last.err = "notMounted") => last.calls = <<>>

\* C3: an Unmount of an existing volume that is not mounted fails, with the
\* not-mounted error when its state discovery succeeds; it issues only the
\* lookups of state discovery (Disks.Get, and Instances.Get and the
\* mount-point lookup for an attached disk) and changes nothing: no unmount,
\* no directory removal, no detach.
C3_UnmountNotMounted ==
    [][ \A n \in Names :
          (last'.op = "Unmount" /\ last'.name = n /\ n \in disks
             /\ GetPath(n) = "")
          => /\ last'.err \in {"notMounted"} \cup LookupErrs
             /\ \E k \in 1..3 : last'.calls = SubSeq(Lookups, 1, k)
             /\ last'.err = "notMounted"
                  => last'.calls = IF Attached(n) THEN Lookups
                                   ELSE <<"Disks.Get">>
             /\ UNCHANGED <<disks, att, mtab, dirs, diskTypes, pend>> ]_vars

C3_Witness ==
    /\ last.op = "Unmount" /\ last.err = "notMounted"
    /\ Attached(last.name) /\ last.calls = Lookups

\* C4: a Mount that fails in its directory-creation or mount step returns no
\* path, has issued no detach and leaves the disk attached; the Mount of the
\* same name that directly follows issues no attach request and, when its
\* state discovery succeeds, goes from the lookups (which found the disk
\* attached) straight to the directory creation.
C4_MountFailureKeepsAttached ==
    /\ (last.op = "Mount" /\ last.err \in MountStepErrs)
         => /\ Attached(last.name)
            /\ ~In(last.calls, "Instances.DetachDisk")
            /\ last.ret = ""
    /\ (prev.op = "Mount" /\ prev.err \in MountStepErrs /\ last.op = "Mount"
          /\ last.name = prev.name)
         => /\ ~In(last.calls, "Instances.AttachDisk")
            /\ last.err \notin LookupErrs
                 => /\ Len(last.calls) >= 4
                    /\ SubSeq(last.calls, 1, 4) = Lookups \o <<"CreateDir">>

C4_Witness ==
    /\ prev.op = "Mount" /\ prev.err = "mount"
    /\ last.op = "Mount" /\ last.name = prev.name /\ last.err = ""
    /\ ~In(last.calls, "Instances.AttachDisk")

\* C5 as stated: after a Mount that returned an error from its attach step
\* the disk is not attached, and no directory was created, nothing mounted.
C5_Original ==
    (last.op = "Mount" /\ last.err \in AttachErrs)
    => /\ ~Attached(last.name)
       /\ ~In(last.calls, "CreateDir")
       /\ ~In(last.calls, "Mount")

\* C5: a Mount that returns an error from its attach step ran on a detached
\* volume, returns no path, has created no directory, mounted nothing and
\* issued no detach; when the attach request was rejected the volume is left
\* detached; when the waiter timed out the operation is not cancelled, and
\* the only change the call can have made is that the disk is now attached
\* or that its attach operation is still in flight.
C5_AttachFailure ==
    [][ \A n \in Names :
          (last'.op = "Mount" /\ last'.name = n /\ last'.err \in AttachErrs)
          => /\ ~Attached(n)
             /\ last'.ret = ""
             /\ ~In(last'.calls, "CreateDir")
             /\ ~In(last'.calls, "Mount")
             /\ ~In(last'.calls, "Instances.DetachDisk")
             /\ UNCHANGED <<disks, mtab, dirs, diskTypes>>
             /\ last'.err = "attachReq" => UNCHANGED <<att, pend>>
             /\ \/ UNCHANGED <<att, pend>>
                \/ att' = [att EXCEPT ![n] = n] /\ pend' = pend
                \/ att' = att /\ pend' = pend \cup {AttachOp([Name |-> n])} ]_vars

C5_Witness ==
    last.op = "Mount" /\ last.err = "attachWait" /\ Attached(last.name)

\* C6: an Unmount whose filesystem unmount fails returns that error, has
\* attempted neither the directory removal nor the detach, and changes
\* nothing: the volume is still attached and mounted and Get reports the
\* same Ready and Path as before the call.
C6_UnmountFailure ==
    [][ \A n \in Names :
          (last'.op = "Unmount" /\ last'.name = n /\ last'.err = "unmount")
          => /\ ~In(last'.calls, "RemoveDir")
             /\ ~In(last'.calls, "Instances.DetachDisk")
             /\ UNCHANGED <<disks, att, mtab, dirs, diskTypes, pend>>
             /\ Attached(n)' /\ GetPath(n)' # ""
             /\ View(n)' = View(n) ]_vars

C6_Witness ==
    last.op = "Unmount" /\ last.err = "unmount" /\ GetPath(last.name) # ""

\* C7: an Unmount that unmounted the device and failed to remove the mount
\* point (the directory is still there after RemoveDir) has issued the
\* detach request and ends as the detach step ends: in success, with the
\* disk detached, in a detach error or in the panic of the waiter, never in
\* the directory-removal error.
C7_RemoveDirFailure ==
    [][ \A n \in Names :
          (last'.op = "Unmount" /\ last'.name = n
             /\ In(last'.calls, "RemoveDir") /\ GetPath(n) \in dirs')
          => /\ In(last'.calls, "Instances.DetachDisk")
             /\ last'.err \in {"", WaitPanic} \cup DetachErrs
             /\ last'.err = "" => ~Attached(n)' ]_vars

C7_Witness ==
    /\ last.op = "Unmount" /\ last.err = ""
    /\ In(last.calls, "RemoveDir") /\ MountPoint(last.name) \in dirs
    /\ ~Attached(last.name)

\* C8 as stated: after an Unmount that failed in its detach step the volume
\* is attached and unmounted.
C8_Original ==
    (last.op = "Unmount" /\ last.err \in DetachErrs)
    => Attached(last.name) /\ GetPath(last.name) = ""

\* C8: an Unmount that fails in its detach step has unmounted the volume;
\* when the detach request was rejected the volume is left attached and
\* unmounted; when the waiter timed out the operation is not cancelled, and
\* the volume is attached and unmounted or already detached.
C8_DetachFailure ==
    (last.op = "Unmount" /\ last.err \in DetachErrs)
    => /\ In(last.calls, "Unmount")
       /\ ~MountedLocally(last.name)
       /\ GetPath(last.name) = ""
       /\ last.err = "detachReq" => Attached(last.name)
       /\ \A v \in View(last.name) : v.Path = ""

\* a volume that a failed detach left attached has since been detached by
\* a successful Unmount
C8_Witness ==
    /\ last.name \in detachFailed
    /\ last.op = "Unmount" /\ last.err = "" /\ ~Attached(last.name)

\* C9: a successful Mount returns <mountPath>/<name> and leaves the volume
\* attached and mounted there, which is what Get reports; a successful
\* Unmount leaves the volume detached and not mounted, which is what Get
\* reports.
C9_MountUnmountCycle ==
    /\ (last.op = "Mount" /\ last.err = "")
         => /\ last.ret = MountPoint(last.name)
            /\ Attached(last.name)
            /\ View(last.name) = { [Ready |-> TRUE, Path |-> last.ret] }
    /\ (last.op = "Unmount" /\ last.err = "")
         => /\ ~Attached(last.name)
            /\ ~MountedLocally(last.name)
            /\ View(last.name) = { [Ready |-> FALSE, Path |-> ""] }

\* a Mount from the detached state succeeds right after a successful Unmount
C9_Witness ==
    /\ prev.op = "Unmount" /\ prev.err = ""
    /\ last.op = "Mount" /\ last.name = prev.name /\ last.err = ""
    /\ In(last.calls, "Instances.AttachDisk")

\* C10 as stated: a Get of an attached volume whose mount point cannot be
\* resolved returns a Volume with Ready true and Path empty.
C10_Original ==
    (last.op = "Get" /\ last.err = "mountPath")
    => /\ last.vol.Name = last.name
       /\ last.vol.Ready
       /\ last.vol.Path = ""

\* C10: when the mount-point lookup of an attached volume fails, Mount and
\* Get (and Unmount) alike fail with that error after the three lookups and
\* return no path and no Volume; the failure is an outcome of Get and of
\* Mount on every attached volume.
C10_LookupFailure ==
    /\ (last.op \in {"Get", "Mount", "Unmount"} /\ last.err = "mountPath")
         => /\ Attached(last.name)
            /\ last.vol.Name = Nil /\ ~last.vol.Ready /\ last.vol.Path = ""
            /\ last.ret = ""
            /\ last.calls = Lookups
    /\ \A n \in disks :
         Attached(n)
         => /\ \E g \in GetCall(World, n) : g.err = "mountPath" /\ g.vol = NilVol
            /\ \E g \in MountCall(World, n) : g.err = "mountPath" /\ g.ret = ""

C10_Witness ==
    last.op = "Get" /\ last.err = "mountPath" /\ Attached(last.name)

\* C11: a Get, Mount or Unmount that found the local instance among the
\* disk's users and did not find the disk's attachment on the instance (its
\* last lookup is Instances.Get) returns the error of the instance lookup.
\* Violated: when the instance's disk list has no entry for the disk,
\* getAttachedDisk returns (nil, nil) and getVolume dereferences the nil
\* attachment, which ends the call in a panic.
C11_Original ==
    (last.op \in {"Get", "Mount", "Unmount"}
       /\ last.calls = <<"Disks.Get", "Instances.Get">>)
    => last.err = "getAttached"

\* the keys of an option map that Create does not recognise
Unrecognised(optsMap) == DOMAIN optsMap \ {"sizeGb", "type"}
CreateSteps == {"Disks.Insert", "Instances.AttachDisk", "Format", "CreateDir",
                "Mount"}

\* C12: in every reachable state, a Create whose options hold an unrecognised
\* key fails, whatever the other keys and the order in which the keys are
\* visited, with the option error naming an unrecognised key of the map; it
\* issues no disk insert, attach, format, directory creation or mount and
\* leaves disks, attachments, mounts, directories and operations as they were
\* (resolving a type option visited earlier may have reloaded the cache).
C12_UnknownOption ==
    /\ \A id \in Names : \A o \in OptionSets :
         Unrecognised(o) # {}
         => \A r \in CreateCall(World, id, o) :
              /\ r.err = "option"
              /\ r.key \in Unrecognised(o)
              /\ r.vol = NilVol
              /\ \A c \in CreateSteps : ~In(r.calls, c)
              /\ r.w = [World EXCEPT !.diskTypes = r.w.diskTypes]
    /\ (last.op = "Create" /\ last.err = "option")
         => /\ last.key = "bogus"
            /\ \A c \in CreateSteps : ~In(last.calls, c)

\* the type option was visited (and resolved) before the unknown one
C12_Witness ==
    /\ last.op = "Create" /\ last.err = "option" /\ last.key = "bogus"
    /\ In(last.calls, "DiskTypes.List")
    /\ last.name \notin disks

\* the capability calls of a complete Create, after option parsing
CreateSeq == <<"Disks.Insert", "ZoneOperations.Get", "Instances.AttachDisk",
               "ZoneOperations.Get", "Format", "CreateDir", "Mount">>
IsStep(c) == c # "DiskTypes.List"
\* the calls of a Create after the disk-type listings of option parsing,
\* which all come first
Steps(calls) == SelectSeq(calls, IsStep)
ListingsFirst(calls) ==
    SubSeq(calls, Len(calls) - Len(Steps(calls)) + 1, Len(calls)) = Steps(calls)
\* how far a Create that ends in err has gone through CreateSeq
Stage(err) ==
    CASE err = "option" -> {0}
      [] err = "createReq" -> {1}
      [] err = "createWait" -> {2}
      [] err = "attachReq" -> {3}
      [] err = "attachWait" -> {4}
      [] err = WaitPanic -> {2, 4}
      [] err = "format" -> {5}
      [] err = "createDir" -> {6}
      [] err \in {"mount", ""} -> {7}

\* C13: in every reachable state, every Create runs its steps in the order
\* insert, wait, attach, wait, format, create directory, mount and stops at
\* the first step that fails; the attach request is issued only once the
\* disk exists and the format only once it is attached.  A successful Create
\* has run all the steps, inserted the disk with the size of a sizeGb option
\* of "20" and with 10 when there is no sizeGb option, returns the Volume
\* with Name = name and Path = <mountPath>/name and leaves the disk existing,
\* attached under its name and mounted at that path.
C13_CreateOrder ==
    /\ \A id \in Names : \A o \in OptionSets :
         \A r \in CreateCall(World, id, o) :
           /\ ListingsFirst(r.calls)
           /\ \E k \in Stage(r.err) : Steps(r.calls) = SubSeq(CreateSeq, 1, k)
           /\ In(r.calls, "Instances.AttachDisk") => id \in r.w.disks
           /\ In(r.calls, "Format") => r.w.att[id] = id
           /\ r.err = ""
                => /\ r.vol.Name = id
                   /\ r.vol.Path = PathJoin(mountPath, id)
                   /\ "sizeGb" \notin DOMAIN o
                        => r.disk.SizeGb = defaultVolumeSizeGb
                   /\ ("sizeGb" \in DOMAIN o /\ o["sizeGb"] = "20")
                        => r.disk.SizeGb = 20
                   /\ id \in r.w.disks /\ id \notin disks
                   /\ MountPointOf(r.w.mtab, DevicePath(id))
                        = PathJoin(mountPath, id)
    /\ (last.op = "Create" /\ last.err = "")
         => /\ last.vol.Name = last.name
            /\ last.vol.Path = MountPoint(last.name)
            /\ last.name \in disks /\ att[last.name] = last.name
            /\ GetPath(last.name) = MountPoint(last.name)
            /\ Steps(last.calls) = CreateSeq

C13_Witness ==
    /\ last.op = "Create" /\ last.err = ""
    /\ last.disk = [SizeGb |-> 20, Type |-> TypeURI(TypeName(NumPages))]
    /\ last.vol.Name = last.name /\ last.vol.Path = MountPoint(last.name)
    /\ last.calls = <<"DiskTypes.List">> \o CreateSeq

\* the errors of the steps of Create that follow createDisk
AfterCreateErrs == AttachErrs \cup {"format"} \cup MountStepErrs

\* C14: a Create that fails in its attach, format or mount step leaves the
\* created disk in place and has issued no detach; when it failed in the
\* format or mount step the disk is still attached.  Every disk that exists
\* and is not attached (as a Create that failed to attach leaves it) is
\* tolerated: Get fails only when the disk lookup itself fails and otherwise
\* returns the Volume with Ready false and an empty Path after the one
\* lookup; Mount, past that lookup, issues the attach request first and can
\* run through attach, directory creation and mount to return the path.
C14_NoRollback ==
    /\ (last.op = "Create" /\ last.err \in AfterCreateErrs)
         => /\ last.name \in disks
            /\ ~In(last.calls, "Instances.DetachDisk")
            /\ last.err \in {"format"} \cup MountStepErrs
                 => att[last.name] = last.name
    /\ \A n \in disks :
         ~Attached(n)
         => /\ \A g \in GetCall(World, n) :
                 /\ g.err \in {"", "getDisk"}
                 /\ g.err = ""
                      => /\ g.vol = [NilVol EXCEPT !.Name = n,
                                                   !.diskURI = DiskURI(n)]
                         /\ g.calls = <<"Disks.Get">>
            /\ \E g \in GetCall(World, n) : g.err = ""
            /\ \A r \in MountCall(World, n) :
                 r.err # "getDisk"
                 => /\ Len(r.calls) >= 2
                    /\ r.calls[2] = "Instances.AttachDisk"
            /\ \E r \in MountCall(World, n) :
                 /\ r.err = "" /\ r.ret = PathJoin(mountPath, n)
                 /\ r.calls = <<"Disks.Get", "Instances.AttachDisk",
                                "ZoneOperations.Get", "CreateDir", "Mount">>

\* a Create has failed in its attach step and left the disk unattached
C14_Witness ==
    /\ last.op = "Create" /\ last.err \in AttachErrs
    /\ last.name \in disks /\ ~Attached(last.name)

\* a run of waitForOp that has returned ended as waitLoop computes
WaitAgrees ==
    wt.pc = "returned"
    => /\ wt.err = waitForOp(wt.in).err
       /\ wt.polls = waitForOp(wt.in).polls

\* the polls at which the wait would see DONE
DonePolls(in) == { k \in 1..MaxPolls : k >= in.doneAt /\ k \notin in.fetchFail }
Min(S) == CHOOSE k \in S : \A j \in S : k <= j
\* when the loop condition before the k-th poll is evaluated
StartOf(k, in) == (k - 1) * (in.latency + operationPollInterval)

\* C15: a wait for an operation whose status fetch fails on some polls and
\* that reports DONE on a later poll started before the deadline returns
\* success.  Violated: the first failed fetch ends the wait in a panic.
C15_Original ==
    (/\ wt.pc = "returned"
     /\ DonePolls(wt.in) # {}
     /\ StartOf(Min(DonePolls(wt.in)), wt.in) < operationWaitTimeout
     /\ \E k \in wt.in.fetchFail : k < Min(DonePolls(wt.in)))
    => wt.err = ""

\* C16: a wait that returns success has polled at least once and stopped at
\* the first poll at which the operation reports DONE, its N-th: it has
\* issued exactly N polls (at least N, at most N + 1).  Conversely a wait
\* for an operation that reports DONE first on its N-th poll, whose polls up
\* to the N-th fetch the status and whose N-th poll starts inside the
\* deadline (with immediate fetches: every N up to 50, so every N with
\* N x 100ms < 5s), returns success.
C16_PollCount ==
    wt.pc = "returned"
    => /\ wt.polls >= 1
       /\ wt.err = ""
            => /\ wt.polls = wt.in.doneAt
               /\ wt.polls >= wt.in.doneAt /\ wt.polls <= wt.in.doneAt + 1
       /\ (/\ wt.in.doneAt <= MaxPolls
           /\ wt.in.fetchFail \cap (1..wt.in.doneAt) = {}
           /\ StartOf(wt.in.doneAt, wt.in) < operationWaitTimeout)
            => wt.err = ""
       /\ (wt.in.latency = 0 /\ wt.in.fetchFail = {}
             /\ wt.in.doneAt * operationPollInterval < operationWaitTimeout)
            => wt.err = "" /\ wt.polls = wt.in.doneAt

\* the operation reported DONE on the 49th poll, 4.8s after the start
C16_Witness ==
    /\ wt.pc = "returned" /\ wt.err = ""
    /\ wt.polls = MaxPolls - 1 /\ wt.elapsed = 4800

\* C17: a wait for an operation that never reports DONE returns the timeout
\* error, not before 5s have elapsed and after at most 50 polls.  Violated:
\* when a status fetch fails the wait ends in the panic of C15, before the
\* deadline and without an error returned.
C17_Original ==
    (wt.pc = "returned" /\ wt.in.doneAt > MaxPolls)
    => /\ wt.err = "timeout"
       /\ wt.elapsed >= operationWaitTimeout
       /\ wt.polls <= MaxPolls

\* the disk types that exist in the zone
RemoteTypes == { TypeName(k) : k \in 1..NumPages }
Solo(p) == \A q \in Procs \ {p} : lk[q].pc = "idle"
Returned(p) == lk[p].pc = "done"

\* a lookup that ran alone ended as getDiskType computes
LookupAgrees ==
    \A p \in Procs :
      (Solo(p) /\ Returned(p))
      => \E t \in getDiskType([World EXCEPT !.diskTypes = lk[p].cache0],
                              lk[p].name) :
           /\ t.err = lk[p].res
           /\ t.diskType = lk[p].diskType
           /\ t.w.diskTypes = diskTypes
           /\ Len(t.calls) = lk[p].listings

\* C18: every lookup, alone or beside another one, issues at most one
\* listing.  A lookup that returns a type without having reloaded has issued
\* none, and a lookup running alone on a cache that holds the name returns
\* it so; a lookup returns not-found only after exactly one listing of its
\* own, which it completed (cache absent at the start, or invalidated by its
\* miss), and does not list again.
C18_OneListing ==
    \A p \in Procs :
      /\ lk[p].listings <= 1
      /\ lk[p].fresh => lk[p].listings = 1
      /\ Returned(p)
           => /\ (lk[p].res = "" /\ ~lk[p].fresh) => lk[p].listings = 0
              /\ lk[p].res = "typeNotFound"
                   => lk[p].fresh /\ lk[p].listings = 1
              /\ (Solo(p) /\ ~lk[p].cache0.isNil
                    /\ lk[p].name \in DOMAIN lk[p].cache0.m)
                   => /\ lk[p].res = "" /\ lk[p].listings = 0
                      /\ lk[p].diskType = DiskType(lk[p].name)
                      /\ diskTypes = lk[p].cache0

\* a lookup alone on a populated cache missed, reloaded once and returned
\* not-found
C18_Witness ==
    \E p \in Procs :
      /\ Solo(p) /\ Returned(p)
      /\ ~lk[p].cache0.isNil /\ lk[p].cache0.m # <<>>
      /\ lk[p].name = "nope" /\ lk[p].res = "typeNotFound"
      /\ lk[p].listings = 1

\* C19: whatever the interleaving of two lookups on the shared cache, a
\* lookup that returns returns the descriptor of its name, the error of a
\* failed listing, or not-found for a name that is no disk type of the zone,
\* and no lookup ends in a panic.  Violated: the map is
\* read and written without synchronisation, so a lookup can see the map the
\* other one is still filling, miss, and set d.diskTypes to nil under the
\* loader (whose next store panics), and a loader can finish on a map that
\* the other one has just replaced and return not-found for a type that
\* exists.
C19_Original ==
    \A p \in Procs :
      Returned(p)
      => /\ lk[p].res \in {"", "typeNotFound", "listTypes"}
         /\ lk[p].res = "typeNotFound" => lk[p].name \notin RemoteTypes
         /\ lk[p].res = "" => lk[p].diskType = DiskType(lk[p].name)

\* the calls of the race that have returned a path and no error
Succeeded == { p \in Procs : mr[p].pc = "done" /\ mr[p].err = "" /\ mr[p].ret # "" }
\* the calls that ended in a panic instead of returning
Crashed == { p \in Procs : mr[p].pc = "done" /\ mr[p].err \in {"panic", WaitPanic} }
MountsOf(n) == { e \in mtab : e.target = PathJoin(mountPath, n) }

\* a Mount that ran alone ended as MountCall computes
MountAgrees ==
    \A p \in Procs :
      ((\A q \in Procs \ {p} : mr[q].pc = "idle") /\ mr[p].pc = "done")
      => \E r \in MountCall([disks |-> disks, att |-> [n \in Names |-> NoDevice],
                             mtab |-> {}, dirs |-> {}, diskTypes |-> NilMap,
                             pend |-> {}], mr[p].Name) :
           r.err = mr[p].err /\ r.ret = mr[p].ret

\* whatever the interleaving, at most one of the two calls returns a path
\* without error and the volume is mounted at most once
RaceSafe ==
    /\ Cardinality(Succeeded) <= 1
    /\ \A n \in Names : Cardinality(MountsOf(n)) <= 1

\* C20: when both Mount calls on the initially detached volume have ended,
\* at most one has returned a path without error, the other one has then
\* returned an error, and the volume is mounted at most once.  Violated:
\* beside the call that mounts, the other one can end in a panic instead of
\* returning an error, in getVolume (C11) or in waitForOp (C15).
C20_Original ==
    (\A p \in Procs : mr[p].pc = "done")
    => /\ Cardinality(Succeeded) <= 1
       /\ Succeeded # {}
            => \A p \in Procs \ Succeeded : mr[p].err # "" /\ p \notin Crashed
       /\ \A n \in Names : Cardinality(MountsOf(n)) <= 1

\* the recognised options of a map whose value cannot be processed: a sizeGb
\* that is no integer, a type that is no disk type of the zone
Unprocessable(optsMap) ==
    \/ "sizeGb" \in DOMAIN optsMap /\ ~ParseInt(optsMap["sizeGb"]).ok
    \/ "type" \in DOMAIN optsMap /\ optsMap["type"] \notin RemoteTypes

\* this step is a Create(id, optsMap)
IsCreate(id, optsMap) ==
    \E r \in CreateCall(World, id, optsMap) : Install("Create", id, r)

\* C21: every Create whose sizeGb option is no integer or whose type option
\* names no disk type of the zone ends with the option error and has issued
\* no disk insert, and every Create with a type option that has requested a
\* disk has requested it with the type resolved (a failed listing does not
\* let the Create go on).  Violated: parseVolumeOption returns its outer err,
\* which the sizeGb and type cases never assign (theirs is declared by the if
\* statement), so the failed conversion or lookup is dropped and the disk is
\* inserted with the default size or without a type.
C21_Original ==
    [][\A id \in Names : \A o \in OptionSets :
         IsCreate(id, o)
         => /\ Unprocessable(o)
                 => last'.err = "option" /\ ~In(last'.calls, "Disks.Insert")
            /\ ("type" \in DOMAIN o /\ last'.disk # NoDisk)
                 => last'.disk.Type = TypeURI(o["type"])]_vars

IsFormat(c) == c = "Format"
Formats(calls) == Len(SelectSeq(calls, IsFormat))

\* C22: in every reachable state, no Get, Mount, Unmount, Remove or List
\* (and no completion of an operation left in flight) formats a device.  A
\* Create formats at most once, and when it does the disk did not exist when
\* the call began, this call inserted it and attached it (both waits ended
\* without error), the format comes right after that attach, on the device
\* path the attach has set, /dev/disk/by-id/google-<name>, and the disk
\* exists and is attached under its name afterwards.
C22_FormatOnlyInCreate ==
    /\ last.op # "Create" => Formats(last.calls) = 0
    /\ Formats(last.calls) <= 1
    /\ \A r \in ListCall(World) \cup RemoveCall(World, Nil) : Formats(r.calls) = 0
    /\ \A id \in Names :
         /\ \A r \in GetCall(World, id) \cup MountCall(World, id)
                       \cup UnmountCall(World, id) \cup RemoveCall(World, id) :
              Formats(r.calls) = 0
         /\ \A o \in OptionSets : \A r \in CreateCall(World, id, o) :
              /\ Formats(r.calls) <= 1
              /\ Formats(r.calls) = 1
                   => /\ id \notin disks
                      /\ id \in r.w.disks /\ r.w.att[id] = id
                      /\ \E p \in parseVolumeOptions(World, o) :
                         \E c \in createDisk(p.w, id, p.opts, p.calls) :
                         \E a \in attachDisk(c.w, c.vol, c.calls) :
                           /\ p.err = "" /\ c.err = "" /\ a.err = ""
                           /\ a.vol.Name = id
                           /\ a.vol.devicePath = DevicePath(id)
                           /\ DeviceExists(a.w, a.vol.devicePath)
                           /\ Len(r.calls) > Len(a.calls)
                           /\ SubSeq(r.calls, 1, Len(a.calls) + 1)
                                = a.calls \o <<"Format">>
                           /\ Steps(a.calls) = SubSeq(CreateSeq, 1, 4)

\* a Create has formatted the device of the disk it created and attached,
\* and the format failed
C22_Witness ==
    /\ last.op = "Create" /\ last.err = "format"
    /\ Formats(last.calls) = 1
    /\ last.name \in disks /\ att[last.name] = last.name

\* the volume is mounted on its mount point while its disk is detached
MountedDetached(n) == MountedLocally(n) /\ ~Attached(n)
\* the detach that Unmount requested was accepted and has completed
DetachCompleted ==
    /\ mr[Unmounter].pc \in {"detachWait", "done"}
    /\ mr[Unmounter].err \in {"", "detachWait", WaitPanic}
    /\ DetachOp(mr[Unmounter]) \notin pend
\* Mount has returned the mount point of n without error
MountReturned(n) ==
    /\ mr[Mounter].pc = "done" /\ mr[Mounter].err = ""
    /\ mr[Mounter].ret = MountPoint(n)

\* C23 as stated: in every interleaving of a Mount and an Unmount of the
\* same volume, a volume that is mounted locally is attached.  Violated:
\* Unmount unmounts, Mount then finds the disk attached and not mounted and
\* mounts it again, and the detach of Unmount completes after that.
C23_Original ==
    \A n \in Names : MountedLocally(n) => Attached(n)

\* C23, amended: in every interleaving of a Mount and an Unmount of the same
\* volume, whatever is mounted from a device that still exists is mounted
\* from the device of an attached disk (no mount step acts on a detached
\* disk).  The volume is mounted while its disk is detached only when the
\* detach requested by Unmount, after its own unmount, has completed behind
\* a Mount that found the disk still attached, mounted it and returned its
\* path without error; and a Mount has returned its path without error
\* while the disk is detached only when that detach has completed.
C23_MountedDetachedOnlyBehindDetach ==
    /\ \A e \in mtab : e.device # GoneDevice => DeviceExists(World, e.device)
    /\ \A n \in Names :
         /\ MountedDetached(n)
              => /\ DetachCompleted
                 /\ MountReturned(n)
                 /\ mr[Mounter].Ready
                 /\ mr[Mounter].devicePath = DevicePath(n)
                 /\ \A e \in MountsOf(n) : e.device = GoneDevice
         /\ (MountReturned(n) /\ ~Attached(n)) => DetachCompleted

\* Mount has returned the path and Unmount has returned nil, and the volume
\* is mounted while its disk is detached
C23_Witness ==
    \E n \in Names :
      /\ MountedDetached(n)
      /\ MountReturned(n)
      /\ mr[Unmounter].pc = "done" /\ mr[Unmounter].err = ""

\* the cache holds every disk type of the zone
CompleteListing == LoadedPages(NumPages)

\* C24: a lookup that ran alone on a cache that was absent or complete and
\* returned the error of a listing that failed part-way (after its first
\* page) has left the cache absent.
\* Violated: loadDiskTypes assigns the new map to d.diskTypes before the
\* listing and returns the error of call.Pages without resetting it, so the
\* pages stored before the failure stay behind as a cache that is not nil; a
\* later lookup of a name on those pages is a hit on the partial map, with no
\* listing.
C24_Original ==
    \A p \in Procs :
      (Solo(p) /\ Returned(p) /\ lk[p].res = "listTypes" /\ lk[p].page > 1
         /\ lk[p].cache0 \in {NilMap, CompleteListing})
      => diskTypes.isNil
====
